---- MODULE Spec2Model ----
(***************************************************************************)
(* Model of the tyto query dispatcher: the Ontology facade                 *)
(* (src/tyto/tyto.py), its graph backend and SPARQL-style term matching    *)
(* (src/tyto/endpoint/endpoint.py) and the per-ontology sanitization hooks *)
(* (src/tyto/so.py).                                                       *)
(*                                                                         *)
(* Strings are sequences of one-character strings, so that str.replace and *)
(* the regular expression of get_uri_by_term are computed character by     *)
(* character.  A URI is a pair <<namespace, local id>>.  The ontology data  *)
(* is a set of rdfs:label triples [uri, label]; labels carry no language   *)
(* tag.                                                                    *)
(*                                                                         *)
(* Specifications: Spec, the dispatcher with the cache switched off;       *)
(* CacheSpec, the lru_cache layer, attribute and subscript access;         *)
(* RelationSpec, the relationship methods of URI over the class triples;   *)
(* RestSpec, the OLS and PubChem REST backends; ConcurrentSpec, _handler   *)
(* run by two threads; SharedSpec, one endpoint instance called by two     *)
(* threads; ListingSpec, the relationship, instance and listing methods of *)
(* URI over every backend class; OntologiesSpec, get_ontologies.           *)
(***************************************************************************)
EXTENDS Naturals, Sequences, FiniteSets

VARIABLES
    world,      \* the rdfs:label triples of the ontology (file content and remote copy)
    obj,        \* "new" before Ontology(...), "ok" once constructed, "error" if __init__ raised
    hooks,      \* which sanitization hooks the instance carries: "base" or "SO"
    graph,      \* Ontology.graph: [exists, store]; store is GraphEndpoint.graph (the triple store)
    endpoints,  \* Ontology.endpoints: the ordered list of endpoint backends
    loads,      \* number of GraphEndpoint.load() executions so far
    last,       \* record of the most recent operation and what it did
    cache,      \* the lru_cache layer around get_term_by_uri and get_uri_by_term
    hierarchy,  \* the rdf:type owl:Class and rdfs:subClassOf triples of the ontology
    callers,    \* the threads that are inside _handler, each with its position
    service,    \* what the REST service answers to a request: HTTP status and payload
    shared      \* the module-level endpoint instances: SPARQLWrapper query, OLS short ids

vars == <<world, obj, hooks, graph, endpoints, loads, last, cache, hierarchy, callers, service, shared>>

----------------------------------------------------------------------------
(* Bounds *)

MaxLabels == 2      \* label triples in the ontology
MaxEndpoints == 2   \* length of the endpoints list
MaxLoads == 3       \* cap on the load() counter
MaxCacheSize == 2   \* largest maxsize given to configure_cache_size by a caller
MaxSubClassOf == 3  \* rdfs:subClassOf triples in the ontology
MaxItems == 2       \* results in the payload of a REST reply

----------------------------------------------------------------------------
(* Values *)

NoVal == <<>>

\* Namespaces of so.py: the native PURL namespace and the two identifiers.org forms
NsPurl == "http://purl.obolibrary.org/obo/SO_"
NsIdOrg == "https://identifiers.org/SO:"
NsIdOld == "http://identifiers.org/so/SO:"

LocalIds == {"0000110", "0000167"}
NativeURIs == {<<NsPurl, i>> : i \in LocalIds}
QueryURIs == {<<ns, i>> : ns \in {NsPurl, NsIdOrg, NsIdOld}, i \in LocalIds}

LabelPool == { <<"a">>, <<"A">>, <<"a", "-", "a">> }
QueryTerms == { <<"a">>, <<"A">>, <<"a", "_", "a">>, <<"a", " ", "a">>, <<"A", "-", "a">> }

Triples == [uri : NativeURIs, label : LabelPool]
Worlds == {w \in SUBSET Triples : Cardinality(w) <= MaxLabels}

\* str(None), what GraphEndpoint.convert makes of an unbound variable
NoneStr == <<"N", "o", "n", "e">>

\* Responses of a backend method and outcomes of a call
NoExc == [type |-> "none", cands |-> {}]
None == [kind |-> "none", val |-> NoVal, exc |-> NoExc]
Value(v) == [kind |-> "value", val |-> v, exc |-> NoExc]
Raise(t, c) == [kind |-> "raise", val |-> NoVal, exc |-> [type |-> t, cands |-> c]]

\* Ontobee._endpoint before any setQuery, EBIOntologyLookupService.ontology_short_ids = {}
NoShared == [queryString |-> NoVal, ontology_short_ids |-> {}]

OnlyElem(S) == CHOOSE x \in S : TRUE

----------------------------------------------------------------------------
(* Ontology.__init__ *)

EndpointKinds == {"sparql", "absent", "fail"}

RECURSIVE SeqsUpTo(_, _)
SeqsUpTo(S, n) ==
    IF n = 0 THEN {<<>>}
    ELSE LET shorter == SeqsUpTo(S, n - 1)
         IN  shorter \cup {Append(s, x) : s \in {t \in shorter : Len(t) = n - 1}, x \in S}

\* The path argument: None, '', a file name, or a non-string object
PathArgs == {"None", "EmptyStr", "File", "NonStr"}

\* The endpoints argument: None, or a container [isList, items]; an item is an
\* endpoint kind or "notBackend" (an object that is no QueryBackend)
EndpointArgs ==
    {[given |-> FALSE, isList |-> FALSE, items |-> <<>>]}
    \cup {[given |-> TRUE, isList |-> TRUE, items |-> s] : s \in SeqsUpTo(EndpointKinds, MaxEndpoints)}
    \cup {[given |-> TRUE, isList |-> FALSE, items |-> s] : s \in {<<>>, <<"sparql">>}}
    \cup {[given |-> TRUE, isList |-> TRUE, items |-> s] : s \in {<<"notBackend">>, <<"sparql", "notBackend">>}}

Truthy(path) == path \in {"File", "NonStr"}
TruthyEndpoints(e) == e.given /\ Len(e.items) > 0
\* The REST backends: EBIOntologyLookupService and PubChemAPI
RestKinds == {"ols", "pug"}

IsQueryBackend(k) == k \in EndpointKinds \cup RestKinds

NoGraph == [exists |-> FALSE, store |-> {}]

\* InitOutcome without the check that path or endpoints is supplied
InitOutcome_unchecked(path, eps) ==
    IF TruthyEndpoints(eps)
       /\ (~eps.isList \/ ~(\A i \in 1..Len(eps.items) : IsQueryBackend(eps.items[i])))
    THEN "TypeError"
    ELSE IF Truthy(path) /\ path # "File" THEN "TypeError"
    ELSE "ok"

\* The outcome of __init__: the exception raised, or "ok"
InitOutcome(path, eps) ==
    IF ~Truthy(path) /\ ~TruthyEndpoints(eps) THEN "Exception"
    ELSE IF TruthyEndpoints(eps)
            /\ (~eps.isList \/ ~(\A i \in 1..Len(eps.items) : IsQueryBackend(eps.items[i])))
         THEN "TypeError"
    ELSE IF Truthy(path) /\ path # "File" THEN "TypeError"
    ELSE "ok"

Construct(path, eps, h) ==
    /\ obj = "new"
    /\ LET res == InitOutcome(path, eps)
       IN  /\ obj' = IF res = "ok" THEN "ok" ELSE "error"
           /\ hooks' = IF res = "ok" THEN h ELSE hooks
           /\ endpoints' = IF res = "ok" /\ TruthyEndpoints(eps) THEN eps.items ELSE <<>>
           /\ graph' = IF res = "ok" /\ Truthy(path)
                       THEN [exists |-> TRUE, store |-> {}]
                       ELSE NoGraph
           /\ last' = [op |-> "init", path |-> path, eps |-> eps, res |-> res]
    /\ UNCHANGED <<world, loads, cache, hierarchy, callers, service, shared>>

----------------------------------------------------------------------------
(* Sanitization hooks: Ontology defaults (tyto.py) and the SO overrides (so.py) *)

RECURSIVE replace(_, _, _)
\* str.replace(old, new) for one-character old and new
replace(s, old, new) ==
    IF s = <<>> THEN <<>>
    ELSE <<IF Head(s) = old THEN new ELSE Head(s)>> \o replace(Tail(s), old, new)

RECURSIVE multi_replace(_, _, _)
multi_replace(target_uri, old_namespaces, new_namespace) ==
    IF old_namespaces = <<>> THEN target_uri
    ELSE IF target_uri[1] = Head(old_namespaces) THEN <<new_namespace, target_uri[2]>>
    ELSE multi_replace(target_uri, Tail(old_namespaces), new_namespace)

\* sanitize_uri of SO replacing only the first of the two identifiers.org namespaces
sanitize_uri_first(h, uri) ==
    IF h = "SO" THEN multi_replace(uri, <<NsIdOrg>>, NsPurl) ELSE uri

sanitize_uri(h, uri) ==
    IF h = "SO" THEN multi_replace(uri, <<NsIdOrg, NsIdOld>>, NsPurl) ELSE uri

reverse_sanitize_uri(h, uri) ==
    IF h = "SO" /\ uri[1] = NsPurl THEN <<NsIdOrg, uri[2]>> ELSE uri

sanitize_term(h, term) ==
    IF h = "SO" THEN term ELSE replace(term, "_", " ")

reverse_sanitize_term(h, term) == term

----------------------------------------------------------------------------
(* SPARQLBuilder: the queries shared by the graph and the SPARQL endpoint *)

Lower(c) == IF c = "A" THEN "a" ELSE c

\* One element of the pattern '^' + term.replace(' ', '[\-\_\s]') + '$' against one
\* character of a label; icase is the "i" flag of REGEX
ElemMatches(p, c, icase) ==
    IF p = " " THEN c \in {"-", "_", " "}
    ELSE IF icase THEN Lower(p) = Lower(c)
    ELSE p = c

\* RegexMatch without the '$' anchor
RegexMatch_unanchored(term, label, icase) ==
    /\ Len(term) <= Len(label)
    /\ \A i \in 1..Len(term) : ElemMatches(term[i], label[i], icase)

RegexMatch(term, label, icase) ==
    /\ Len(term) = Len(label)
    /\ \A i \in 1..Len(term) : ElemMatches(term[i], label[i], icase)

\* SELECT distinct ?uri WHERE { ?uri rdfs:label ?term FILTER(REGEX(?term, pattern [, "i"])) }
QueryUris(data, term, icase) ==
    {t.uri : t \in {x \in data : RegexMatch(term, x.label, icase)}}

\* SELECT distinct ?label: the labels of the URI, or one row with ?label unbound
QueryLabels(data, uri) == {t.label : t \in {x \in data : x.uri = uri}}

\* GraphEndpoint.convert keeps the unbound row as str(None); SPARQLEndpoint.convert drops it
convert(kind, labels) ==
    IF labels = {} /\ kind = "graph" THEN {NoneStr} ELSE labels

\* The possible responses (the order of a result list is the store's choice)
SPARQLBuilder_get_term_by_uri(kind, data, uri) ==
    LET response == convert(kind, QueryLabels(data, uri))
    IN  IF response = {} THEN {None} ELSE {Value(l) : l \in response}

\* SPARQLBuilder_get_uri_by_term without the case-sensitive second query
SPARQLBuilder_get_uri_by_term_once(data, term) ==
    LET response == QueryUris(data, term, TRUE)
    IN  IF response = {} THEN {None} ELSE {Value(u) : u \in response}

SPARQLBuilder_get_uri_by_term(data, term) ==
    LET response == QueryUris(data, term, TRUE)
        case_sensitive == QueryUris(data, term, FALSE)
    IN  IF response = {} THEN {None}
        ELSE IF Cardinality(response) > 1
             THEN IF case_sensitive = {} THEN {None}
                  ELSE IF Cardinality(case_sensitive) > 1
                       THEN {Raise("Exception:Ambiguous", case_sensitive)}
                  ELSE {Value(OnlyElem(case_sensitive))}
        ELSE {Value(OnlyElem(response))}

\* A Python bool as a response
Bool(b) == IF b THEN <<"True">> ELSE <<"False">>

\* The nodes ?x with  <n> rdfs:subClassOf* ?x  for some n in S (S itself included:
\* a path of length zero)
RECURSIVE SubClassOfStar(_, _)
SubClassOfStar(sub, S) ==
    LET next == S \cup {e[2] : e \in {f \in sub : f[1] \in S}}
    IN  IF next = S THEN S ELSE SubClassOfStar(sub, next)

\* SPARQLBuilder_is_child_of following rdfs:subClassOf over any number of steps
SPARQLBuilder_is_child_of_transitive(h, child_uri, parent_uri) ==
    LET child_terms == {c \in h.classes : parent_uri \in SubClassOfStar(h.sub, {c}) \ {c}}
    IN  Bool(child_uri \in child_terms)

\* ?child rdf:type owl:Class . ?child rdfs:subClassOf <parent_uri>
SPARQLBuilder_is_child_of(h, child_uri, parent_uri) ==
    LET child_terms == {c \in h.classes : <<c, parent_uri>> \in h.sub}
    IN  Bool(child_uri \in child_terms)

\* <child_uri> rdf:type owl:Class . <child_uri> rdfs:subClassOf ?parent
SPARQLBuilder_is_parent_of(h, parent_uri, child_uri) ==
    LET parent_terms == {e[2] : e \in {f \in h.sub : f[1] = child_uri /\ child_uri \in h.classes}}
    IN  Bool(parent_uri \in parent_terms)

\* <descendant_uri> rdfs:subClassOf* ?superclass . ?superclass rdf:type owl:Class
SPARQLBuilder_is_ancestor_of(h, ancestor_uri, descendant_uri) ==
    LET ancestors == SubClassOfStar(h.sub, {descendant_uri}) \cap h.classes
    IN  Bool(ancestor_uri \in ancestors)

\* ?descendant rdf:type owl:Class . ?descendant rdfs:subClassOf* <ancestor_uri>
SPARQLBuilder_is_descendant_of(h, descendant_uri, ancestor_uri) ==
    LET descendants == {d \in h.classes : ancestor_uri \in SubClassOfStar(h.sub, {d})}
    IN  Bool(descendant_uri \in descendants)

\* BIND(<uri> AS ?instance) ?instance a owl:NamedIndividual
SPARQLBuilder_is_instance(h, uri) ==
    LET response == {p[1] : p \in {q \in h.individuals : q[1] = uri}}
    IN  Bool(response # {})

\* The lists that hold each element of a set once
Orderings(S) == {q \in SeqsUpTo(S, Cardinality(S)) :
                    Len(q) = Cardinality(S) /\ {q[i] : i \in 1..Len(q)} = S}

\* ?instance a owl:NamedIndividual . ?instance a <cls>; the order of the list is
\* the store's choice
SPARQLBuilder_get_instances(h, cls) ==
    LET instances == {p[1] : p \in {q \in h.individuals : q[2] = cls}}
    IN  IF instances = {} THEN {Raise("Exception", {})}
        ELSE {Value(q) : q \in Orderings(instances)}

----------------------------------------------------------------------------
(* RESTEndpoint: EBIOntologyLookupServiceAPI and PUG_REST *)

NsPubChem == "https://identifiers.org/pubchem.substance:"

\* A reply of the service: the status code of the response, the results its
\* JSON payload lists (labels or synonyms for a URI, documents or SIDs for a
\* term), and whether the listing of OLS names the ontology
HttpStatuses == {200, 201, 404, 500}
ItemIds == {"1", "2"}
Replies == [status : HttpStatuses, items : SeqsUpTo(ItemIds, MaxItems), known : BOOLEAN]
NoService == [status |-> 404, items |-> <<>>, known |-> FALSE]

\* urllib.error.HTTPError(query, response.status_code, ...); its code is the
\* status of the reply
HTTPError(status) == Raise("HTTPError", {})

\* Lines 363-375: the label of the term
OLS_get_term_by_uri(reply, uri) ==
    IF ~reply.known THEN Raise("LookupError", {})
    ELSE IF reply.status = 200
         THEN IF reply.items = <<>> THEN Raise("KeyError", {}) ELSE Value(<<reply.items[1]>>)
    ELSE IF reply.status = 404 THEN None
    ELSE HTTPError(reply.status)

\* Lines 377-394: the iri of the first document of the search
OLS_get_uri_by_term(reply, term) ==
    IF ~reply.known THEN Raise("LookupError", {})
    ELSE IF reply.status = 200
         THEN IF reply.items = <<>> THEN None ELSE Value(<<NsPurl, reply.items[1]>>)
    ELSE HTTPError(reply.status)

\* Lines 480-490: the first synonym of the substance
PUG_REST_get_term_by_uri(reply, uri) ==
    IF reply.status = 200
    THEN IF reply.items = <<>> THEN Raise("KeyError", {}) ELSE Value(<<reply.items[1]>>)
    ELSE IF reply.status = 404 THEN None
    ELSE HTTPError(reply.status)

\* PUG_REST_get_uri_by_term taking the first SID of several
PUG_REST_get_uri_by_term_first(reply, term) ==
    IF reply.status = 200
    THEN IF reply.items = <<>> THEN None ELSE Value(<<NsPubChem, reply.items[1]>>)
    ELSE HTTPError(reply.status)

\* Lines 492-503: the SID of the substance; more than one SID is an error
PUG_REST_get_uri_by_term(reply, term) ==
    IF reply.status = 200
    THEN IF reply.items = <<>> THEN None
         ELSE IF Len(reply.items) > 1 THEN Raise("LookupError", {})
         ELSE Value(<<NsPubChem, reply.items[1]>>)
    ELSE HTTPError(reply.status)

\* Lines 354-361 and 242-246, _get_request: the JSON of a 200 response (here the
\* iris of _embedded.terms, none if the key is missing), else an error
OLS_response(reply) ==
    IF ~reply.known THEN Raise("LookupError", {})
    ELSE IF reply.status = 200 THEN Value(reply.items)
    ELSE HTTPError(reply.status)

\* [ontology._reverse_sanitize_uri(iri) for iri in ...]
OLS_terms(h, items) == [i \in 1..Len(items) |-> reverse_sanitize_uri(h, <<NsPurl, items[i]>>)]

\* Lines 396-407
OLS_get_parents(reply, h, uri) ==
    LET response == OLS_response(reply)
    IN  IF response.kind = "raise" THEN response ELSE Value(OLS_terms(h, response.val))

\* Lines 409-420
OLS_get_children(reply, h, uri) ==
    LET response == OLS_response(reply)
    IN  IF response.kind = "raise" THEN response ELSE Value(OLS_terms(h, response.val))

\* Lines 422-433
OLS_get_descendants(reply, h, uri) ==
    LET response == OLS_response(reply)
    IN  IF response.kind = "raise" THEN response ELSE Value(OLS_terms(h, response.val))

\* Lines 435-446: the list initialised is `descendants`, the list returned is
\* `ancestors`, which is bound only inside the if
OLS_get_ancestors(reply, h, uri) ==
    LET response == OLS_response(reply)
    IN  IF response.kind = "raise" THEN response
        ELSE IF response.val = <<>> THEN Raise("UnboundLocalError", {})
        ELSE Value(OLS_terms(h, response.val))

\* x in list, for the response of one of the four methods above
Contains(listing, x) ==
    IF listing.kind = "raise" THEN listing
    ELSE Value(Bool(\E i \in 1..Len(listing.val) : listing.val[i] = x))

\* Lines 448-462
OLS_is_parent_of(reply, h, parent_uri, child_uri) ==
    Contains(OLS_get_parents(reply, h, child_uri), reverse_sanitize_uri(h, parent_uri))
OLS_is_child_of(reply, h, child_uri, parent_uri) ==
    Contains(OLS_get_children(reply, h, parent_uri), reverse_sanitize_uri(h, child_uri))
OLS_is_descendant_of(reply, h, descendant_uri, ancestor) ==
    Contains(OLS_get_descendants(reply, h, ancestor), reverse_sanitize_uri(h, descendant_uri))
OLS_is_ancestor_of(reply, h, ancestor_uri, descendant_uri) ==
    Contains(OLS_get_ancestors(reply, h, descendant_uri), reverse_sanitize_uri(h, ancestor_uri))

Methods == {"get_uri_by_term", "get_term_by_uri"}
RelationMethods == {"is_child_of", "is_parent_of", "is_ancestor_of", "is_descendant_of"}
InstanceMethods == {"is_instance", "get_instances"}
ListingMethods == {"get_parents", "get_children", "get_ancestors", "get_descendants"}

\* hasattr(backend, method_name): the methods each backend class defines or
\* inherits; "absent" and "fail" stand for endpoints that define the method
Supports(kind, method) ==
    CASE kind \in {"graph", "sparql"} -> method \in Methods \cup RelationMethods \cup InstanceMethods
      [] kind = "ols" -> method \in Methods \cup RelationMethods \cup ListingMethods
      [] kind = "pug" -> method \in Methods
      [] OTHER -> TRUE

\* getattr(backend, method_name)(ontology, *args): the set of possible responses.
\* kind "graph" queries the given store; an endpoint of kind "sparql" queries its
\* copy of the ontology; "absent" answers None; "fail" raises; "ols" and "pug"
\* send one request, which the service answers with its reply.  The relationship
\* methods take two URIs and query the class triples, which a graph holds once
\* its file is parsed.
Invoke(kind, data, method, arg) ==
    CASE ~Supports(kind, method) -> {Raise("AttributeError", {})}
      [] kind = "absent" -> {None}
      [] kind = "fail" -> {Raise("BackendError", {})}
      [] kind = "ols" ->
           {CASE method = "get_uri_by_term" -> OLS_get_uri_by_term(service, arg)
              [] method = "get_term_by_uri" -> OLS_get_term_by_uri(service, arg)
              [] method = "get_parents" -> OLS_get_parents(service, hooks, arg)
              [] method = "get_children" -> OLS_get_children(service, hooks, arg)
              [] method = "get_descendants" -> OLS_get_descendants(service, hooks, arg)
              [] method = "get_ancestors" -> OLS_get_ancestors(service, hooks, arg)
              [] method = "is_parent_of" -> OLS_is_parent_of(service, hooks, arg[1], arg[2])
              [] method = "is_child_of" -> OLS_is_child_of(service, hooks, arg[1], arg[2])
              [] method = "is_descendant_of" -> OLS_is_descendant_of(service, hooks, arg[1], arg[2])
              [] OTHER -> OLS_is_ancestor_of(service, hooks, arg[1], arg[2])}
      [] kind = "pug" -> {IF method = "get_uri_by_term" THEN PUG_REST_get_uri_by_term(service, arg)
                          ELSE PUG_REST_get_term_by_uri(service, arg)}
      [] method = "is_instance" -> {Value(SPARQLBuilder_is_instance(hierarchy, arg))}
      [] method = "get_instances" -> SPARQLBuilder_get_instances(hierarchy, arg)
      [] method = "is_child_of" -> {Value(SPARQLBuilder_is_child_of(hierarchy, arg[1], arg[2]))}
      [] method = "is_parent_of" -> {Value(SPARQLBuilder_is_parent_of(hierarchy, arg[1], arg[2]))}
      [] method = "is_ancestor_of" -> {Value(SPARQLBuilder_is_ancestor_of(hierarchy, arg[1], arg[2]))}
      [] method = "is_descendant_of" -> {Value(SPARQLBuilder_is_descendant_of(hierarchy, arg[1], arg[2]))}
      [] OTHER -> IF method = "get_uri_by_term"
                  THEN SPARQLBuilder_get_uri_by_term(data, arg)
                  ELSE SPARQLBuilder_get_term_by_uri(kind, data, arg)

----------------------------------------------------------------------------
(* GraphEndpoint *)

is_loaded(store) == store # {}

\* graph.parse(path): the triples of the file are added to the store
load(store, file) == store \cup file

----------------------------------------------------------------------------
(* Ontology._handler *)

Call(b, i, a, r) == [b |-> b, i |-> i, a |-> a, r |-> r]

\* LoadedGraphStep dropping the response of the graph
LoadedGraphStep_dropped(g, method, arg) ==
    IF g.exists /\ is_loaded(g.store)
    THEN {[calls |-> <<Call("graph", 0, arg, r)>>, r |-> None] : r \in Invoke("graph", g.store, method, arg)}
    ELSE {[calls |-> <<>>, r |-> None]}

\* Step 1 (lines 56-60): the already loaded graph
LoadedGraphStep(g, method, arg) ==
    IF g.exists /\ is_loaded(g.store)
    THEN {[calls |-> <<Call("graph", 0, arg, r)>>, r |-> r] : r \in Invoke("graph", g.store, method, arg)}
    ELSE {[calls |-> <<>>, r |-> None]}

\* EndpointStep without the return inside the loop: every endpoint is called and
\* the last answer wins
RECURSIVE EndpointStep_noreturn(_, _, _, _, _)
EndpointStep_noreturn(eps, i, data, method, arg) ==
    IF i > Len(eps) THEN {[calls |-> <<>>, r |-> None]}
    ELSE UNION {
           {[calls |-> <<Call("endpoint", i, arg, r)>> \o rest.calls,
             r |-> IF rest.r.kind = "none" THEN r ELSE rest.r] :
                rest \in EndpointStep_noreturn(eps, i + 1, data, method, arg)}
           : r \in Invoke(eps[i], data, method, arg)}

\* Step 2 (lines 69-74): the endpoints from position i on; the response of the
\* first endpoint that does not return None (a raise leaves the loop too)
RECURSIVE EndpointStep(_, _, _, _, _)
EndpointStep(eps, i, data, method, arg) ==
    IF i > Len(eps) THEN {[calls |-> <<>>, r |-> None]}
    ELSE UNION {
           IF r.kind = "none"
           THEN {[calls |-> <<Call("endpoint", i, arg, r)>> \o rest.calls, r |-> rest.r] :
                    rest \in EndpointStep(eps, i + 1, data, method, arg)}
           ELSE {[calls |-> <<Call("endpoint", i, arg, r)>>, r |-> r]}
           : r \in Invoke(eps[i], data, method, arg)}

\* LazyLoadStep querying the graph again when it was loaded before the dispatch
LazyLoadStep_requery(g, file, method, arg) ==
    IF g.exists
    THEN LET store == load(g.store, file)
         IN  {[calls |-> (IF is_loaded(g.store) THEN <<>> ELSE <<Call("load", 0, NoVal, None)>>)
                            \o <<Call("graph", 0, arg, r)>>,
               r |-> IF r.kind = "raise" /\ Supports("graph", method) THEN None ELSE r,
               store |-> store, nloads |-> IF is_loaded(g.store) THEN 0 ELSE 1] :
                 r \in Invoke("graph", store, method, arg)}
    ELSE {[calls |-> <<>>, r |-> None, store |-> g.store, nloads |-> 0]}

\* Step 3 (lines 84-92): load the graph and query it; an exception of the query
\* is caught and logged; getattr (line 86) stands before the try
LazyLoadStep(g, file, method, arg) ==
    IF g.exists /\ ~is_loaded(g.store)
    THEN LET store == load(g.store, file)
         IN  {[calls |-> <<Call("load", 0, NoVal, None), Call("graph", 0, arg, r)>>,
               r |-> IF r.kind = "raise" /\ Supports("graph", method) THEN None ELSE r,
               store |-> store, nloads |-> 1] : r \in Invoke("graph", store, method, arg)}
    ELSE {[calls |-> <<>>, r |-> None, store |-> g.store, nloads |-> 0]}

\* Fallthrough raising the class Exception instead of the exception it was given
Fallthrough_generic(exception) == Raise("Exception", {})

\* Lines 94-96
Fallthrough(exception) ==
    IF exception # "None" THEN Raise(exception, {}) ELSE None

\* handler loading the graph although an endpoint answered
handler_eager_load(g, eps, file, method, exception, arg) ==
    UNION {
      IF s1.r.kind # "none"
      THEN {[calls |-> s1.calls, out |-> s1.r, store |-> g.store, nloads |-> 0]}
      ELSE UNION {
        {[calls |-> s1.calls \o s2.calls \o s3.calls,
          out |-> IF s2.r.kind # "none" THEN s2.r
                  ELSE IF s3.r.kind # "none" THEN s3.r ELSE Fallthrough(exception),
          store |-> s3.store, nloads |-> s3.nloads] :
            s3 \in LazyLoadStep(g, file, method, arg)}
        : s2 \in EndpointStep(eps, 1, file, method, arg)}
      : s1 \in LoadedGraphStep(g, method, arg)}

\* The possible runs of one dispatch: the backend calls in order, the outcome
\* (a returned value, a returned None or a raised exception), the store afterwards
handler(g, eps, file, method, exception, arg) ==
    UNION {
      IF s1.r.kind # "none"
      THEN {[calls |-> s1.calls, out |-> s1.r, store |-> g.store, nloads |-> 0]}
      ELSE UNION {
        IF s2.r.kind # "none"
        THEN {[calls |-> s1.calls \o s2.calls, out |-> s2.r, store |-> g.store, nloads |-> 0]}
        ELSE {[calls |-> s1.calls \o s2.calls \o s3.calls,
               out |-> IF s3.r.kind # "none" THEN s3.r ELSE Fallthrough(exception),
               store |-> s3.store, nloads |-> s3.nloads] :
                 s3 \in LazyLoadStep(g, file, method, arg)}
        : s2 \in EndpointStep(eps, 1, file, method, arg)}
      : s1 \in LoadedGraphStep(g, method, arg)}

----------------------------------------------------------------------------------------------------------------------------------------------
(* Ontology.get_term_by_uri / get_uri_by_term *)

\* What the caller gets from a lookup whose dispatch ended with ret, given the
\* reverse hook applied to a returned value
Wrap(ret, v) == IF ret.kind = "raise" THEN ret ELSE Value(v)

\* URI(self._reverse_sanitize_uri(uri), self)
Ontology_get_uri_by_term(h, g, eps, file, term) ==
    LET sanitized_term == sanitize_term(h, term)
    IN  {[calls |-> run.calls, out |-> run.out, store |-> run.store, nloads |-> run.nloads,
          res |-> Wrap(run.out, reverse_sanitize_uri(h, run.out.val))] :
            run \in handler(g, eps, file, "get_uri_by_term", "LookupError", sanitized_term)}

\* Ontology_get_term_by_uri handing no exception to _handler
Ontology_get_term_by_uri_noexc(h, g, eps, file, uri) ==
    LET sanitized_uri == sanitize_uri(h, uri)
    IN  {[calls |-> run.calls, out |-> run.out, store |-> run.store, nloads |-> run.nloads,
          res |-> Wrap(run.out, reverse_sanitize_term(h, run.out.val))] :
            run \in handler(g, eps, file, "get_term_by_uri", "None", sanitized_uri)}

\* Term(self._reverse_sanitize_term(term), sanitized_uri, self)
Ontology_get_term_by_uri(h, g, eps, file, uri) ==
    LET sanitized_uri == sanitize_uri(h, uri)
    IN  {[calls |-> run.calls, out |-> run.out, store |-> run.store, nloads |-> run.nloads,
          res |-> Wrap(run.out, reverse_sanitize_term(h, run.out.val))] :
            run \in handler(g, eps, file, "get_term_by_uri", "LookupError", sanitized_uri)}

----------------------------------------------------------------------------
(* Operations on a constructed Ontology *)

\* The record of one dispatch: the operation, its argument as given and as
\* sanitized, the exception handed to _handler, whether the graph was loaded
\* when the dispatch began, the backend calls in order with their responses,
\* what _handler returned or raised (out) and what the caller received (res)
LogOf(op, arg, sarg, exception, run, res) ==
    [op |-> op, arg |-> arg, sarg |-> sarg, exception |-> exception,
     wasLoaded |-> graph.exists /\ is_loaded(graph.store),
     calls |-> run.calls, out |-> run.out, res |-> res]

Commit(store, nloads) ==
    /\ loads + nloads <= MaxLoads
    /\ graph' = [graph EXCEPT !.store = store]
    /\ loads' = loads + nloads
    /\ UNCHANGED <<world, obj, hooks, endpoints, cache, hierarchy, callers, service, shared>>

\* ontology._handler(method_name, None, arg), as the URI value types call it
Dispatch(method, arg) ==
    /\ obj = "ok"
    /\ \E run \in handler(graph, endpoints, world, method, "None", arg) :
          /\ Commit(run.store, run.nloads)
          /\ last' = LogOf("_handler", arg, arg, "None", run, run.out)

GetUriByTerm(term) ==
    /\ obj = "ok"
    /\ \E run \in Ontology_get_uri_by_term(hooks, graph, endpoints, world, term) :
          /\ Commit(run.store, run.nloads)
          /\ last' = LogOf("get_uri_by_term", term, sanitize_term(hooks, term),
                           "LookupError", run, run.res)

GetTermByUri(uri) ==
    /\ obj = "ok"
    /\ \E run \in Ontology_get_term_by_uri(hooks, graph, endpoints, world, uri) :
          /\ Commit(run.store, run.nloads)
          /\ last' = LogOf("get_term_by_uri", uri, sanitize_uri(hooks, uri),
                           "LookupError", run, run.res)

\* uri = O.get_uri_by_term(term); term_b = O.get_term_by_uri(uri)
\* (test_ontology.py, test_SO): the second lookup runs only if the first returned
RoundTrip(term) ==
    /\ obj = "ok"
    /\ \E run1 \in Ontology_get_uri_by_term(hooks, graph, endpoints, world, term) :
          IF run1.res.kind = "raise"
          THEN /\ Commit(run1.store, run1.nloads)
               /\ last' = [op |-> "round_trip", arg |-> term, uri |-> run1.res,
                           calls |-> run1.calls, res |-> run1.res]
          ELSE \E run2 \in Ontology_get_term_by_uri(hooks, [graph EXCEPT !.store = run1.store],
                                                    endpoints, world, run1.res.val) :
                  /\ Commit(run2.store, run1.nloads + run2.nloads)
                  /\ last' = [op |-> "round_trip", arg |-> term, uri |-> run1.res,
                              calls |-> run1.calls \o run2.calls, res |-> run2.res]

----------------------------------------------------------------------------
(* functools.lru_cache as configure_cache_size installs it *)

\* One cache per memoized operation: the entries from the least to the most
\* recently used.  The key of an entry is the argument tuple of the call, the
\* Ontology and the argument as the caller gave it; the model has one Ontology,
\* so the argument stands for the key.
CacheEntry(k, v) == [key |-> k, val |-> v]
Keys(c) == {c[i].key : i \in 1..Len(c)}
Find(c, k) == CHOOSE i \in 1..Len(c) : c[i].key = k
Remove(c, i) == SubSeq(c, 1, i - 1) \o SubSeq(c, i + 1, Len(c))

\* Touch leaving the entry where it is, as a first-in first-out cache does
Touch_fifo(c, k) == c

\* A hit moves the entry to the most recently used end
Touch(c, k) == Remove(c, Find(c, k)) \o <<c[Find(c, k)]>>

\* A miss whose call returned: the result is stored, at capacity in place of the
\* least recently used entry; with maxsize 0 nothing is stored
Store(c, maxsize, k, v) ==
    IF maxsize = 0 THEN c
    ELSE IF Len(c) >= maxsize THEN Tail(c) \o <<CacheEntry(k, v)>>
    ELSE Append(c, CacheEntry(k, v))

\* The state of the layer: how many lru_cache wrappers are around the function
\* (0 before tyto.py line 309 ran), their maxsize, and the two caches
CacheState(layers, maxsize) ==
    [layers |-> layers, maxsize |-> maxsize, term_by_uri |-> <<>>, uri_by_term |-> <<>>]

\* The Ontology holds no class hierarchy
NoHierarchy == [classes |-> {}, sub |-> {}, individuals |-> {}]

\* The dispatcher with configure_cache_size(0): every lookup is a miss and stores
\* nothing, so GetUriByTerm and GetTermByUri are the whole of a lookup
Init ==
    /\ world \in Worlds
    /\ obj = "new"
    /\ hooks = "base"
    /\ graph = NoGraph
    /\ endpoints = <<>>
    /\ loads = 0
    /\ last = [op |-> "none"]
    /\ cache = CacheState(1, 0)
    /\ hierarchy = NoHierarchy
    /\ callers = <<>>
    /\ service = NoService
    /\ shared = NoShared

Next ==
    \/ \E path \in PathArgs, eps \in EndpointArgs, h \in {"base", "SO"} : Construct(path, eps, h)
    \/ \E term \in QueryTerms : GetUriByTerm(term)
    \/ \E uri \in QueryURIs : GetTermByUri(uri)
    \/ \E term \in QueryTerms : Dispatch("get_uri_by_term", term)
    \/ \E term \in QueryTerms : RoundTrip(term)

Spec == Init /\ [][Next]_vars

----------------------------------------------------------------------------
(* configure_cache_size and the memoized lookups *)

\* The default of the maxsize parameter
DefaultCacheSize == 1000

\* Rewrap putting a new lru_cache around whatever the attribute holds
Rewrap_stacked(layers) == layers + 1

\* Lines 300-306: without __wrapped__ the function is wrapped; with it, the
\* function under the wrapper (__wrapped__) is wrapped in place of the wrapper
Rewrap(layers) == IF layers = 0 THEN 1 ELSE (layers - 1) + 1

\* Both operations get a new lru_cache(maxsize), whose cache starts empty
configure_cache_size(maxsize) ==
    /\ cache' = CacheState(Rewrap(cache.layers), maxsize)
    /\ last' = [op |-> "configure_cache_size", arg |-> maxsize,
                held |-> Len(cache.term_by_uri) + Len(cache.uri_by_term)]
    /\ UNCHANGED <<world, obj, hooks, graph, endpoints, loads, hierarchy, callers, service, shared>>

\* Line 309: the call in the module body, when tyto is imported
ImportTyto ==
    /\ cache.layers = 0
    /\ configure_cache_size(DefaultCacheSize)

\* A call of the application
ConfigureCacheSize(maxsize) ==
    /\ cache.layers > 0
    /\ configure_cache_size(maxsize)

\* lru_cache_wrapper storing an entry for a call that raised as well
lru_cache_wrapper_failures(c, maxsize, key, runs) ==
    IF maxsize > 0 /\ key \in Keys(c)
    THEN {[hit |-> TRUE, cache |-> Touch(c, key), calls |-> <<>>,
           res |-> Value(c[Find(c, key)].val), store |-> graph.store, nloads |-> 0]}
    ELSE {[hit |-> FALSE,
           cache |-> Store(c, maxsize, key, run.res.val),
           calls |-> run.calls, res |-> run.res, store |-> run.store, nloads |-> run.nloads] :
             run \in runs}

\* lru_cache_wrapper looking the key up by its sanitized form
lru_cache_wrapper_sanitized(c, maxsize, key, runs) ==
    LET same == {k \in Keys(c) : sanitize_term(hooks, k) = sanitize_term(hooks, key)}
    IN  IF maxsize > 0 /\ same # {}
        THEN {[hit |-> TRUE, cache |-> Touch(c, OnlyElem(same)), calls |-> <<>>,
               res |-> Value(c[Find(c, OnlyElem(same))].val), store |-> graph.store, nloads |-> 0]}
        ELSE {[hit |-> FALSE,
               cache |-> IF run.res.kind = "raise" THEN c ELSE Store(c, maxsize, key, run.res.val),
               calls |-> run.calls, res |-> run.res, store |-> run.store, nloads |-> run.nloads] :
                 run \in runs}

\* One call of a memoized function with the given key; runs are the possible
\* runs of the function under the wrapper.  A hit returns the stored result and
\* calls nothing; a miss calls the function and stores what it returned; an
\* exception of the function passes through and nothing is stored.
lru_cache_wrapper(c, maxsize, key, runs) ==
    IF maxsize > 0 /\ key \in Keys(c)
    THEN {[hit |-> TRUE, cache |-> Touch(c, key), calls |-> <<>>,
           res |-> Value(c[Find(c, key)].val), store |-> graph.store, nloads |-> 0]}
    ELSE {[hit |-> FALSE,
           cache |-> IF run.res.kind = "raise" THEN c ELSE Store(c, maxsize, key, run.res.val),
           calls |-> run.calls, res |-> run.res, store |-> run.store, nloads |-> run.nloads] :
             run \in runs}

\* The record of one memoized lookup: the operation, how it was reached (method
\* call, attribute access, subscript), the argument, the cache as it was before,
\* whether it was a hit, the backend calls and what the caller received
LookupLog(fn, via, arg, before, m) ==
    [op |-> "lookup", fn |-> fn, via |-> via, arg |-> arg, before |-> before,
     wasLoaded |-> graph.exists /\ is_loaded(graph.store),
     hit |-> m.hit, calls |-> m.calls, res |-> m.res]

\* Ontology.get_uri_by_term as installed by configure_cache_size
Memo_get_uri_by_term(via, term) ==
    /\ obj = "ok"
    /\ cache.layers > 0
    /\ \E m \in lru_cache_wrapper(cache.uri_by_term, cache.maxsize, term,
                   Ontology_get_uri_by_term(hooks, graph, endpoints, world, term)) :
          /\ loads + m.nloads <= MaxLoads
          /\ loads' = loads + m.nloads
          /\ graph' = [graph EXCEPT !.store = m.store]
          /\ cache' = [cache EXCEPT !.uri_by_term = m.cache]
          /\ last' = LookupLog("get_uri_by_term", via, term, cache.uri_by_term, m)
    /\ UNCHANGED <<world, obj, hooks, endpoints, hierarchy, callers, service, shared>>

\* Ontology.get_term_by_uri as installed by configure_cache_size
Memo_get_term_by_uri(uri) ==
    /\ obj = "ok"
    /\ cache.layers > 0
    /\ \E m \in lru_cache_wrapper(cache.term_by_uri, cache.maxsize, uri,
                   Ontology_get_term_by_uri(hooks, graph, endpoints, world, uri)) :
          /\ loads + m.nloads <= MaxLoads
          /\ loads' = loads + m.nloads
          /\ graph' = [graph EXCEPT !.store = m.store]
          /\ cache' = [cache EXCEPT !.term_by_uri = m.cache]
          /\ last' = LookupLog("get_term_by_uri", "method", uri, cache.term_by_uri, m)
    /\ UNCHANGED <<world, obj, hooks, endpoints, hierarchy, callers, service, shared>>

----------------------------------------------------------------------------
(* Attribute and subscript access *)

\* The names self.__dict__ holds after __init__
InstanceFields ==
    { <<"g", "r", "a", "p", "h">>,
      <<"e", "n", "d", "p", "o", "i", "n", "t", "s">>,
      <<"u", "r", "i">> }

\* Names defined in the body of class Ontology (two of its methods)
ClassAttributes ==
    { <<"g", "e", "t", "_", "u", "r", "i", "_", "b", "y", "_", "t", "e", "r", "m">>,
      <<"_", "h", "a", "n", "d", "l", "e", "r">> }

\* What O.name gives for a name that normal attribute lookup finds
Attribute(kind, name) == Value(<<kind, name>>)

\* GetAttr handing every name to get_uri_by_term
GetAttr_always(name) == Memo_get_uri_by_term("attribute", name)

\* O.name: Python calls __getattr__ only when the name is found neither in the
\* instance __dict__ nor on the class; __getattr__ then delegates to the
\* memoized get_uri_by_term
GetAttr(name) ==
    IF name \in InstanceFields \cup ClassAttributes
    THEN /\ obj = "ok"
         /\ cache.layers > 0
         /\ last' = [op |-> "lookup", fn |-> "none", via |-> "attribute", arg |-> name,
                     before |-> cache.uri_by_term,
                     wasLoaded |-> graph.exists /\ is_loaded(graph.store),
                     hit |-> FALSE, calls |-> <<>>,
                     res |-> Attribute(IF name \in InstanceFields THEN "field" ELSE "class", name)]
         /\ UNCHANGED <<world, obj, hooks, graph, endpoints, loads, cache, hierarchy, callers, service, shared>>
    ELSE Memo_get_uri_by_term("attribute", name)

\* O[key]
GetItem(key) == Memo_get_uri_by_term("subscript", key)

----------------------------------------------------------------------------
(* The memoized Ontology: import of tyto, one Ontology on a local file, lookups *)

CacheTerms == { <<"a">>, <<"a", "_", "a">>, <<"a", " ", "a">> }
CacheURIs == { <<NsIdOrg, "0000110">>, <<NsIdOld, "0000110">> }

\* The ontologies of this specification: labels in lower case
CacheWorlds == {w \in Worlds : \A t \in w : t.label \in {<<"a">>, <<"a", "-", "a">>}}
AttrNames ==
    CacheTerms \cup { <<"g", "r", "a", "p", "h">>,
                      <<"g", "e", "t", "_", "u", "r", "i", "_", "b", "y", "_", "t", "e", "r", "m">> }

\* Ontology(path=file) and Ontology(path=file, endpoints=[endpoint])
CacheEndpointArgs ==
    { [given |-> FALSE, isList |-> FALSE, items |-> <<>>],
      [given |-> TRUE, isList |-> TRUE, items |-> <<"sparql">>] }

CacheInit ==
    /\ world \in CacheWorlds
    /\ obj = "new"
    /\ hooks = "base"
    /\ graph = NoGraph
    /\ endpoints = <<>>
    /\ loads = 0
    /\ last = [op |-> "none"]
    /\ cache = CacheState(0, 0)
    /\ hierarchy = NoHierarchy
    /\ callers = <<>>
    /\ service = NoService
    /\ shared = NoShared

CacheNext ==
    \/ ImportTyto
    \/ \E maxsize \in 0..MaxCacheSize : ConfigureCacheSize(maxsize)
    \/ \E eps \in CacheEndpointArgs, h \in {"base", "SO"} :
          cache.layers > 0 /\ Construct("File", eps, h)
    \/ \E term \in CacheTerms : Memo_get_uri_by_term("method", term)
    \/ \E uri \in CacheURIs : Memo_get_term_by_uri(uri)
    \/ \E name \in AttrNames : GetAttr(name)
    \/ \E key \in AttrNames : GetItem(key)

CacheSpec == CacheInit /\ [][CacheNext]_vars

----------------------------------------------------------------------------
(* The relationship methods of URI *)

\* promoter, inducible_promoter and RNApol_III_promoter of test_ontology.py
ClassIds == {"0000167", "0002051", "0000171"}
ClassURIs == {<<NsPurl, i>> : i \in ClassIds}

\* The class triples of an ontology: which URIs are typed owl:Class, the
\* rdfs:subClassOf triples <<subclass, superclass>>, and the owl:NamedIndividual
\* resources with a class each, <<instance, class>> (none in these hierarchies)
SubClassOfTriples == {e \in ClassURIs \X ClassURIs : e[1] # e[2]}
Hierarchies ==
    [classes : SUBSET ClassURIs,
     sub : {t \in SUBSET SubClassOfTriples : Cardinality(t) <= MaxSubClassOf},
     individuals : {{}}]

\* self.ontology._handler(method, None, sanitize(self), sanitize(other))
URI_relation(method, self, other) ==
    /\ obj = "ok"
    /\ LET self_uri == sanitize_uri(hooks, self)
           other_uri == sanitize_uri(hooks, other)
       IN  \E run \in handler(graph, endpoints, world, method, "None", <<self_uri, other_uri>>) :
              /\ Commit(run.store, run.nloads)
              /\ last' = [op |-> method, self |-> self_uri, other |-> other_uri,
                          calls |-> run.calls, out |-> run.out]

URI_is_child_of(self, parent_uri) == URI_relation("is_child_of", self, parent_uri)
URI_is_parent_of(self, child_uri) == URI_relation("is_parent_of", self, child_uri)
URI_is_descendant_of(self, ancestor_uri) == URI_relation("is_descendant_of", self, ancestor_uri)
URI_is_ancestor_of(self, descendant_uri) == URI_relation("is_ancestor_of", self, descendant_uri)

\* The URIs the methods are called on and with: the classes in their native
\* form, one of them also in the identifiers.org form
RelationArgs == ClassURIs \cup {<<NsIdOrg, "0000171">>}

\* Ontology(path=file) and Ontology(endpoints=[endpoint])
RelationConstructArgs ==
    { [path |-> "File", eps |-> [given |-> FALSE, isList |-> FALSE, items |-> <<>>]],
      [path |-> "None", eps |-> [given |-> TRUE, isList |-> TRUE, items |-> <<"sparql">>]] }

\* An ontology file with one label and some class triples
RelationInit ==
    /\ world = {[uri |-> <<NsPurl, "0000167">>, label |-> <<"a">>]}
    /\ obj = "new"
    /\ hooks = "base"
    /\ graph = NoGraph
    /\ endpoints = <<>>
    /\ loads = 0
    /\ last = [op |-> "none"]
    /\ cache = CacheState(1, DefaultCacheSize)
    /\ hierarchy \in Hierarchies
    /\ callers = <<>>
    /\ service = NoService
    /\ shared = NoShared

RelationNext ==
    \/ \E a \in RelationConstructArgs : Construct(a.path, a.eps, "SO")
    \/ \E x, y \in RelationArgs : URI_is_child_of(x, y)
    \/ \E x, y \in RelationArgs : URI_is_parent_of(x, y)
    \/ \E x, y \in RelationArgs : URI_is_descendant_of(x, y)
    \/ \E x, y \in RelationArgs : URI_is_ancestor_of(x, y)

RelationSpec == RelationInit /\ [][RelationNext]_vars

----------------------------------------------------------------------------
(* The instance and listing methods of URI *)

\* self.ontology._handler(method, None, self): the URI goes to the dispatcher
\* as it stands
URI_listing(method, self) ==
    /\ obj = "ok"
    /\ \E run \in handler(graph, endpoints, world, method, "None", self) :
          /\ Commit(run.store, run.nloads)
          /\ last' = [op |-> method, self |-> self, other |-> NoVal,
                      calls |-> run.calls, out |-> run.out]

URI_is_instance(self) == URI_listing("is_instance", self)
URI_get_instances(self) == URI_listing("get_instances", self)
URI_get_parents(self) == URI_listing("get_parents", self)
URI_get_children(self) == URI_listing("get_children", self)
URI_get_ancestors(self) == URI_listing("get_ancestors", self)
URI_get_descendants(self) == URI_listing("get_descendants", self)

\* A class and an individual of the ontology, each in its native form and in
\* the identifiers.org form a URI value of SO carries
ListingArgs == {<<ns, i>> : ns \in {NsPurl, NsIdOrg}, i \in {"0000167", "0000110"}}

\* Ontology(path=file), Ontology(path=file, endpoints=[e]) and
\* Ontology(endpoints=[...]) over the backend classes
ListingConstructArgs ==
    { [path |-> "File", eps |-> [given |-> FALSE, isList |-> FALSE, items |-> <<>>]],
      [path |-> "File", eps |-> [given |-> TRUE, isList |-> TRUE, items |-> <<"sparql">>]],
      [path |-> "File", eps |-> [given |-> TRUE, isList |-> TRUE, items |-> <<"absent">>]],
      [path |-> "None", eps |-> [given |-> TRUE, isList |-> TRUE, items |-> <<"ols">>]],
      [path |-> "None", eps |-> [given |-> TRUE, isList |-> TRUE, items |-> <<"pug">>]],
      [path |-> "None", eps |-> [given |-> TRUE, isList |-> TRUE, items |-> <<"sparql", "ols">>]] }

\* The data holds promoter with a subclass, and 0000110 declared an individual
\* of promoter or not; the lookup service hosts the ontology and answers with
\* terms embedded or not, or with an error
ListingInit ==
    /\ world = {[uri |-> <<NsPurl, "0000167">>, label |-> <<"a">>]}
    /\ obj = "new"
    /\ hooks = "base"
    /\ graph = NoGraph
    /\ endpoints = <<>>
    /\ loads = 0
    /\ last = [op |-> "none"]
    /\ cache = CacheState(1, DefaultCacheSize)
    /\ hierarchy \in
          [classes : {{<<NsPurl, "0000167">>, <<NsPurl, "0002051">>}},
           sub : {{<<(<<NsPurl, "0002051">>), (<<NsPurl, "0000167">>)>>}},
           individuals : SUBSET {<<(<<NsPurl, "0000110">>), (<<NsPurl, "0000167">>)>>}]
    /\ callers = <<>>
    /\ service \in {r \in Replies : r.known /\ r.status \in {200, 500} /\ Len(r.items) <= 1}
    /\ shared = NoShared

ListingNext ==
    \/ \E a \in ListingConstructArgs, h \in {"base", "SO"} : Construct(a.path, a.eps, h)
    \/ \E x, y \in ListingArgs : URI_is_child_of(x, y)
    \/ \E x, y \in ListingArgs : URI_is_parent_of(x, y)
    \/ \E x, y \in ListingArgs : URI_is_descendant_of(x, y)
    \/ \E x, y \in ListingArgs : URI_is_ancestor_of(x, y)
    \/ \E x \in ListingArgs : URI_is_instance(x)
    \/ \E x \in ListingArgs : URI_get_instances(x)
    \/ \E x \in ListingArgs : URI_get_parents(x)
    \/ \E x \in ListingArgs : URI_get_children(x)
    \/ \E x \in ListingArgs : URI_get_ancestors(x)
    \/ \E x \in ListingArgs : URI_get_descendants(x)

ListingSpec == ListingInit /\ [][ListingNext]_vars

----------------------------------------------------------------------------
(* get_ontologies of the SPARQL-style backends *)

MaxOntologyRows == 3   \* rows in the result of the query of get_ontologies

\* ?ontology_uri a owl:Ontology . ?ontology_uri dc:title ?title: the rows the
\* store can hold, one per ontology and title
OntologyRows ==
    [uri : {"http://purl.obolibrary.org/obo/so.owl", "http://purl.obolibrary.org/obo/ecao.owl"},
     title : {"Sequence Ontology", "Echinoderm Anatomy and Development Ontology", "SO"}]

\* SPARQLEndpoint.convert: for each variable of the head in turn, its value in
\* each binding
SPARQLEndpoint_convert(rows) ==
    [i \in 1..(2 * Len(rows)) |->
        IF i <= Len(rows) THEN rows[i].uri ELSE rows[i - Len(rows)].title]

\* GraphEndpoint.convert: [str(row[0]) for row in response]
GraphEndpoint_convert(rows) == [i \in 1..Len(rows) |-> rows[i].uri]

\* dict(zip(keys, values)): a later pair replaces an earlier one with its key
DictOfZip(keys, values) ==
    LET n == IF Len(keys) <= Len(values) THEN Len(keys) ELSE Len(values)
    IN  {<<keys[i], values[i]>> : i \in {j \in 1..n : \A k \in (j + 1)..n : keys[k] # keys[j]}}

\* Lines 163-183, on a backend of the given kind whose query gives the rows
SPARQLBuilder_get_ontologies(kind, rows) ==
    LET response == IF kind = "graph" THEN GraphEndpoint_convert(rows)
                    ELSE SPARQLEndpoint_convert(rows)
        n_ontologies == Len(response) \div 2
    IN  IF response = <<>> THEN Raise("Exception", {})
        ELSE Value(DictOfZip(SubSeq(response, 1, n_ontologies),
                             SubSeq(response, n_ontologies + 1, Len(response))))

\* backend.get_ontologies(), as tyto.Ontobee.get_ontologies() of test_ontology.py
GetOntologies(kind, rows) ==
    /\ last' = [op |-> "get_ontologies", kind |-> kind, rows |-> rows,
                out |-> SPARQLBuilder_get_ontologies(kind, rows)]
    /\ UNCHANGED <<world, obj, hooks, graph, endpoints, loads, cache, hierarchy, callers,
                   service, shared>>

\* The module-level endpoint and a graph, no Ontology involved
OntologiesInit ==
    /\ world = {}
    /\ obj = "new"
    /\ hooks = "base"
    /\ graph = NoGraph
    /\ endpoints = <<>>
    /\ loads = 0
    /\ last = [op |-> "none"]
    /\ cache = CacheState(1, DefaultCacheSize)
    /\ hierarchy = NoHierarchy
    /\ callers = <<>>
    /\ service = NoService
    /\ shared = NoShared

\* The result of the query: up to MaxOntologyRows rows in the store's order
OntologiesNext ==
    \E kind \in {"graph", "sparql"} :
        \E S \in {T \in SUBSET OntologyRows : Cardinality(T) <= MaxOntologyRows} :
            \E rows \in Orderings(S) : GetOntologies(kind, rows)

OntologiesSpec == OntologiesInit /\ [][OntologiesNext]_vars

----------------------------------------------------------------------------
(* Ontologies on the REST backends *)

\* NCBITaxon = Ontology(endpoints=[EBIOntologyLookupService], uri=...)
NCBITaxonEndpoints == [given |-> TRUE, isList |-> TRUE, items |-> <<"ols">>]

\* PubChem, the Ontology of the substance service: its only backend is PubChemAPI
PubChemEndpoints == [given |-> TRUE, isList |-> TRUE, items |-> <<"pug">>]

RestEndpointArgs == {NCBITaxonEndpoints, PubChemEndpoints}

RestTerms == { <<"a">>, <<"a", "_", "a">> }
RestURIs == { <<NsPurl, "1">>, <<NsPubChem, "1">> }

\* The service keeps its reply or changes it between two requests
ServiceChanges(reply) ==
    /\ obj = "ok"
    /\ service' = reply
    /\ last' = [op |-> "service"]
    /\ UNCHANGED <<world, obj, hooks, graph, endpoints, loads, cache, hierarchy, callers, shared>>

RestInit ==
    /\ world = {}
    /\ obj = "new"
    /\ hooks = "base"
    /\ graph = NoGraph
    /\ endpoints = <<>>
    /\ loads = 0
    /\ last = [op |-> "none"]
    /\ cache = CacheState(1, 0)
    /\ hierarchy = NoHierarchy
    /\ callers = <<>>
    /\ service \in Replies
    /\ shared = NoShared

RestNext ==
    \/ \E eps \in RestEndpointArgs : Construct("None", eps, "base")
    \/ \E reply \in Replies : ServiceChanges(reply)
    \/ \E term \in RestTerms : GetUriByTerm(term)
    \/ \E uri \in RestURIs : GetTermByUri(uri)
    \/ \E key \in RestTerms : GetItem(key)

RestSpec == RestInit /\ [][RestNext]_vars

----------------------------------------------------------------------------
(* _handler called from two threads on one Ontology *)

\* _handler and GraphEndpoint take no lock; a thread can be suspended between
\* any two of the steps below, and inside graph.parse between two triples.
Callers == {"c1", "c2"}

\* A thread outside _handler
Idle == [pc |-> "idle", term |-> <<>>, parsed |-> {}, partial |-> FALSE, res |-> None]

Others == <<world, obj, hooks, endpoints, last, cache, hierarchy, service, shared>>

\* The thread calls ontology._handler('get_uri_by_term', None, term)
Enter(c, term) ==
    /\ callers[c].pc = "idle"
    /\ callers' = [callers EXCEPT ![c] = [Idle EXCEPT !.pc = "line 56", !.term = term]]
    /\ UNCHANGED <<graph, loads, Others>>

\* Line 56: if self.graph and self.graph.is_loaded()
CheckLoaded(c) ==
    /\ callers[c].pc = "line 56"
    /\ callers' = [callers EXCEPT ![c].pc =
                      IF graph.exists /\ is_loaded(graph.store) THEN "line 58" ELSE "line 69"]
    /\ UNCHANGED <<graph, loads, Others>>

\* Lines 57-60: the query of the graph found loaded; the thread notes whether
\* the graph held the whole file when it queried it
QueryLoaded(c) ==
    /\ callers[c].pc = "line 58"
    /\ \E r \in Invoke("graph", graph.store, "get_uri_by_term", callers[c].term) :
          callers' = [callers EXCEPT ![c].pc = IF r.kind = "none" THEN "line 69" ELSE "done",
                                     ![c].res = r,
                                     ![c].partial = graph.store # world]
    /\ UNCHANGED <<graph, loads, Others>>

\* Lines 69-74: the endpoints, each called in turn
TryEndpoints(c) ==
    /\ callers[c].pc = "line 69"
    /\ \E s2 \in EndpointStep(endpoints, 1, world, "get_uri_by_term", callers[c].term) :
          callers' = [callers EXCEPT ![c].pc = IF s2.r.kind = "none" THEN "line 84" ELSE "done",
                                     ![c].res = s2.r]
    /\ UNCHANGED <<graph, loads, Others>>

\* Line 84: if self.graph and not self.graph.is_loaded(); then load() begins
CheckUnloaded(c) ==
    /\ callers[c].pc = "line 84"
    /\ IF graph.exists /\ ~is_loaded(graph.store)
       THEN /\ loads < MaxLoads
            /\ loads' = loads + 1
            /\ callers' = [callers EXCEPT ![c].pc = "line 85", ![c].parsed = {}]
       ELSE /\ loads' = loads
            /\ callers' = [callers EXCEPT ![c].pc = "done", ![c].res = Fallthrough("None")]
    /\ UNCHANGED <<graph, Others>>

\* Line 85, inside load(): graph.parse adds the next triple of the file to the
\* store; after the last one load() returns
Parse(c) ==
    /\ callers[c].pc = "line 85"
    /\ IF callers[c].parsed = world
       THEN /\ callers' = [callers EXCEPT ![c].pc = "line 88"]
            /\ graph' = graph
       ELSE \E t \in world \ callers[c].parsed :
              /\ graph' = [graph EXCEPT !.store = load(graph.store, {t})]
              /\ callers' = [callers EXCEPT ![c].parsed = callers[c].parsed \cup {t}]
    /\ UNCHANGED <<loads, Others>>

\* Lines 86-92: the query after load(); an exception is caught and logged
QueryAfterLoad(c) ==
    /\ callers[c].pc = "line 88"
    /\ \E r \in Invoke("graph", graph.store, "get_uri_by_term", callers[c].term) :
          callers' = [callers EXCEPT ![c].pc = "done",
                                     ![c].res = IF r.kind = "value" THEN r ELSE Fallthrough("None"),
                                     ![c].partial = graph.store # world]
    /\ UNCHANGED <<graph, loads, Others>>

\* _handler returns to the thread
Return(c) ==
    /\ callers[c].pc = "done"
    /\ callers' = [callers EXCEPT ![c] = Idle]
    /\ UNCHANGED <<graph, loads, Others>>

\* Ontology(path=file) and Ontology(path=file, endpoints=[e]) with e answering
\* None, on a file that holds at least one triple; nothing is loaded yet
ConcurrentInit ==
    /\ world \in Worlds \ {{}}
    /\ obj = "ok"
    /\ hooks = "base"
    /\ graph = [exists |-> TRUE, store |-> {}]
    /\ endpoints \in {<<>>, <<"absent">>}
    /\ loads = 0
    /\ last = [op |-> "none"]
    /\ cache = CacheState(1, 0)
    /\ hierarchy = NoHierarchy
    /\ callers = [c \in Callers |-> Idle]
    /\ service = NoService
    /\ shared = NoShared

ConcurrentNext ==
    \E c \in Callers :
        \/ \E term \in {<<"a">>, <<"A", "-", "a">>} : Enter(c, term)
        \/ CheckLoaded(c)
        \/ QueryLoaded(c)
        \/ TryEndpoints(c)
        \/ CheckUnloaded(c)
        \/ Parse(c)
        \/ QueryAfterLoad(c)
        \/ Return(c)

ConcurrentSpec == ConcurrentInit /\ [][ConcurrentNext]_vars

----------------------------------------------------------------------------
(* One endpoint instance called from two threads *)

\* Ontobee, EBIOntologyLookupService and PubChemAPI are module-level instances
\* (endpoint.py 506-514) that every Ontology of the per-ontology modules lists;
\* neither SPARQLEndpoint nor EBIOntologyLookupServiceAPI takes a lock.

\* config.id of the ontologies in the reply to /ontologies?size=N
HostedOntologies == {"http://purl.obolibrary.org/obo/so.owl",
                     "http://purl.obolibrary.org/obo/ncbitaxon.owl"}

\* A thread outside the endpoint
Outside == [pc |-> "idle", via |-> "none", arg |-> NoVal, fetched |-> {}, res |-> None]

\* SPARQLBuilder.get_term_by_uri(ontology, uri) builds its query and reaches
\* self.query(ontology, query, error_msg)
SPARQLEndpoint_query(c, uri) ==
    /\ callers[c].pc = "idle"
    /\ callers' = [callers EXCEPT ![c] = [Outside EXCEPT !.pc = "line 265", !.via = "sparql",
                                                         !.arg = uri]]
    /\ UNCHANGED <<world, obj, hooks, graph, endpoints, loads, last, cache, hierarchy, service, shared>>

\* Line 265: self._endpoint.setQuery(sparql) stores the query in the one
\* SPARQLWrapper of the instance
setQuery(c) ==
    /\ callers[c].pc = "line 265"
    /\ shared' = [shared EXCEPT !.queryString = callers[c].arg]
    /\ callers' = [callers EXCEPT ![c].pc = "line 266"]
    /\ UNCHANGED <<world, obj, hooks, graph, endpoints, loads, last, cache, hierarchy, service>>

\* Lines 266-267: self._endpoint.query() sends the query the SPARQLWrapper
\* holds now; the converted response goes back to the caller
SendQuery(c) ==
    /\ callers[c].pc = "line 266"
    /\ \E r \in SPARQLBuilder_get_term_by_uri("sparql", world, shared.queryString) :
          callers' = [callers EXCEPT ![c].pc = "done", ![c].res = r]
    /\ UNCHANGED <<world, obj, hooks, graph, endpoints, loads, last, cache, hierarchy, service, shared>>

\* EBIOntologyLookupServiceAPI._get_request(ontology, get_request) is entered
OLS_get_request(c, ontology_uri) ==
    /\ callers[c].pc = "idle"
    /\ callers' = [callers EXCEPT ![c] = [Outside EXCEPT !.pc = "line 355", !.via = "ols",
                                                         !.arg = ontology_uri]]
    /\ UNCHANGED <<world, obj, hooks, graph, endpoints, loads, last, cache, hierarchy, service, shared>>

\* Line 355: if not self.ontology_short_ids: self._load_ontology_ids()
CheckShortIds(c) ==
    /\ callers[c].pc = "line 355"
    /\ callers' = [callers EXCEPT ![c].pc =
                      IF shared.ontology_short_ids = {} THEN "line 349" ELSE "line 357",
                                  ![c].fetched = {}]
    /\ UNCHANGED <<world, obj, hooks, graph, endpoints, loads, last, cache, hierarchy, service, shared>>

\* Lines 349-352, the loop of _load_ontology_ids: one ontology of the reply is
\* entered in the dictionary per iteration; after the last, the method returns
load_ontology_ids(c) ==
    /\ callers[c].pc = "line 349"
    /\ IF callers[c].fetched = HostedOntologies
       THEN /\ callers' = [callers EXCEPT ![c].pc = "line 357"]
            /\ shared' = shared
       ELSE \E iri \in HostedOntologies \ callers[c].fetched :
              /\ shared' = [shared EXCEPT !.ontology_short_ids = @ \cup {iri}]
              /\ callers' = [callers EXCEPT ![c].fetched = @ \cup {iri}]
    /\ UNCHANGED <<world, obj, hooks, graph, endpoints, loads, last, cache, hierarchy, service>>

\* Lines 357-361: LookupError for an ontology.uri that is not a key of the
\* dictionary, else the request is formatted with its short id and sent
ResolveShortId(c) ==
    /\ callers[c].pc = "line 357"
    /\ callers' = [callers EXCEPT ![c].pc = "done",
                                  ![c].res = IF callers[c].arg \in shared.ontology_short_ids
                                             THEN Value(callers[c].arg)
                                             ELSE Raise("LookupError", {})]
    /\ UNCHANGED <<world, obj, hooks, graph, endpoints, loads, last, cache, hierarchy, service, shared>>

\* The endpoint method returns to the thread
Leave(c) ==
    /\ callers[c].pc = "done"
    /\ callers' = [callers EXCEPT ![c] = Outside]
    /\ UNCHANGED <<world, obj, hooks, graph, endpoints, loads, last, cache, hierarchy, service, shared>>

\* Two threads, each with its own Ontology, on the instances of the module
SharedInit ==
    /\ world \in {w \in Worlds : Cardinality(w) = MaxLabels}
    /\ obj = "ok"
    /\ hooks = "base"
    /\ graph = NoGraph
    /\ endpoints = <<"sparql", "ols">>
    /\ loads = 0
    /\ last = [op |-> "none"]
    /\ cache = CacheState(1, 0)
    /\ hierarchy = NoHierarchy
    /\ callers = [c \in Callers |-> Outside]
    /\ service = NoService
    /\ shared = NoShared

SharedNext ==
    \E c \in Callers :
        \/ \E uri \in NativeURIs : SPARQLEndpoint_query(c, uri)
        \/ setQuery(c)
        \/ SendQuery(c)
        \/ \E o \in HostedOntologies \cup {"http://example.org/unhosted.owl"} :
              OLS_get_request(c, o)
        \/ CheckShortIds(c)
        \/ load_ontology_ids(c)
        \/ ResolveShortId(c)
        \/ Leave(c)

SharedSpec == SharedInit /\ [][SharedNext]_vars

----------------------------------------------------------------------------
(* Properties of the dispatcher *)

\* The last operation was one dispatch through _handler
IsDispatch == obj = "ok" /\ last.op \in {"_handler", "get_uri_by_term", "get_term_by_uri"}

IsEndpointCall(c) == c.b = "endpoint"
IsBackendCall(c) == c.b # "load"
EndpointCalls == SelectSeq(last.calls, IsEndpointCall)
BackendCalls == SelectSeq(last.calls, IsBackendCall)
AllAbsent == \A i \in 1..Len(BackendCalls) : BackendCalls[i].r.kind = "none"

\* C1: when the graph is already loaded and answers with a value, _handler returns
\* that value and calls no endpoint during the dispatch.
C1_LoadedGraphAnswerIsFinal ==
    (IsDispatch /\ last.wasLoaded /\ last.calls[1].r.kind = "value")
        => /\ last.calls[1].b = "graph"
           /\ last.out = last.calls[1].r
           /\ EndpointCalls = <<>>

C1_Witness ==
    /\ IsDispatch /\ last.wasLoaded /\ Len(endpoints) > 0
    /\ last.calls[1].r.kind = "value" /\ last.out.kind = "value"

\* The loaded-graph step produced no result: it was skipped or answered None
LoadedStepPassed == ~last.wasLoaded \/ last.calls[1].r.kind = "none"

\* C2: when the loaded-graph step gives no result, the endpoints are called in list
\* order from the first one, each after its predecessor answered None; the first
\* value an endpoint returns is what _handler returns, and it is the last call.
C2_EndpointsInOrderFirstAnswerWins ==
    IsDispatch =>
        LET E == EndpointCalls
        IN  /\ \A j \in 1..Len(E) : E[j].i = j
            /\ \A j \in 1..Len(E) : j < Len(E) => E[j].r.kind = "none"
            /\ \A j \in 1..Len(E) :
                  E[j].r.kind = "value"
                      => /\ last.out = E[j].r
                         /\ last.calls[Len(last.calls)] = E[j]
            /\ (LoadedStepPassed /\ \A j \in 1..Len(E) : E[j].r.kind = "none")
                  => Len(E) = Len(endpoints)

C2_Witness ==
    /\ IsDispatch /\ LoadedStepPassed /\ Len(endpoints) = 2
    /\ Len(EndpointCalls) = 2
    /\ EndpointCalls[1].r.kind = "none" /\ EndpointCalls[2].r.kind = "value"
    /\ last.out = EndpointCalls[2].r

\* C3: load() runs only in a dispatch that found the graph present and not loaded
\* and in which every endpoint of the list had answered None before; when an
\* endpoint answers with a value while the graph is unloaded, no load() runs and
\* the graph is unloaded after the dispatch.
C3_LoadOnlyAfterAllEndpointsAbsent ==
    IsDispatch =>
        /\ \A p \in 1..Len(last.calls) :
              last.calls[p].b = "load"
                  => /\ graph.exists /\ ~last.wasLoaded
                     /\ p = Len(endpoints) + 1
                     /\ \A q \in 1..(p - 1) :
                           /\ last.calls[q].b = "endpoint" /\ last.calls[q].i = q
                           /\ last.calls[q].r = None
                           /\ endpoints[q] # "fail"
        /\ (~last.wasLoaded /\ \E j \in 1..Len(EndpointCalls) : EndpointCalls[j].r.kind = "value")
              => /\ ~is_loaded(graph.store)
                 /\ \A p \in 1..Len(last.calls) : last.calls[p].b # "load"

C3_Witness ==
    /\ IsDispatch /\ graph.exists /\ ~last.wasLoaded /\ world # {}
    /\ Len(EndpointCalls) = 2 /\ EndpointCalls[2].r.kind = "value"
    /\ ~is_loaded(graph.store)

\* C4: when every backend consulted in a dispatch answered None, _handler raises
\* the exception it was given, and returns None if it was given none.
C4_AllAbsentRaisesOrNone ==
    (IsDispatch /\ AllAbsent)
        => last.out = IF last.exception = "None" THEN None
                      ELSE Raise(last.exception, {})

C4_Witness ==
    /\ IsDispatch /\ AllAbsent /\ last.exception = "None"
    /\ Len(EndpointCalls) > 0
    /\ \E p \in 1..Len(last.calls) : last.calls[p].b = "load"
    /\ last.out = None

\* C5: an exception raised by a backend during a dispatch is never what the
\* caller of _handler observes: the dispatch goes on to the next backend.
C5_BackendExceptionAbsorbed ==
    IsDispatch =>
        \A i \in 1..Len(last.calls) :
            last.calls[i].r.kind = "raise" => last.out # last.calls[i].r

C7_ConstructionValidated ==
    /\ last.op = "init" =>
          LET pathGiven == last.path \in {"File", "NonStr"}
              epsGiven == last.eps.given /\ last.eps.items # <<>>
              wellFormed ==
                  /\ pathGiven \/ epsGiven
                  /\ epsGiven => /\ last.eps.isList
                                 /\ \A i \in 1..Len(last.eps.items) :
                                       last.eps.items[i] # "notBackend"
                  /\ pathGiven => last.path = "File"
          IN  /\ (obj = "ok") <=> wellFormed
              /\ (obj = "error") <=> ~wellFormed
              /\ obj = "ok" => /\ graph.exists <=> pathGiven
                               /\ endpoints = IF epsGiven THEN last.eps.items ELSE <<>>
    /\ obj = "ok" => graph.exists \/ Len(endpoints) > 0

C7_Witness ==
    /\ last.op = "init" /\ obj = "ok"
    /\ last.path = "None" /\ Len(endpoints) = 2 /\ ~graph.exists

\* C8: load() is executed at most once on one Ontology, and a graph that
\* is_loaded() stays so, whatever the backing file holds.
C8_LoadAtMostOnce ==
    [][loads' <= 1 /\ (is_loaded(graph.store) => is_loaded(graph'.store))]_vars

\* Case and separator normalisation of a term: lower case, underscore and hyphen
\* read as space
RECURSIVE Normalize(_)
Normalize(t) ==
    IF t = <<>> THEN <<>>
    ELSE <<IF Head(t) \in {"_", "-"} THEN " " ELSE Lower(Head(t))>> \o Normalize(Tail(t))

RoundTripReturned == obj = "ok" /\ last.op = "round_trip" /\ last.res.kind = "value"

C10_AmbiguityPropagates ==
    (IsDispatch /\ last.op = "get_uri_by_term")
        => \A i \in 1..Len(last.calls) :
              (last.calls[i].r.kind = "raise"
                  /\ last.calls[i].r.exc.type = "Exception:Ambiguous")
                  => last.res = last.calls[i].r

----------------------------------------------------------------------------
(* Properties of the memoized lookups and of attribute access *)

IsLookup == obj = "ok" /\ last.op = "lookup"

\* The URIs that carry the label
Carriers(label) == {t.uri : t \in {x \in world : x.label = label}}

\* C11: on an Ontology backed only by a local file, attribute access with a term
\* whose label is carried by more than one URI raises LookupError, whether the
\* graph was loaded by this lookup or by an earlier one.
C11_NonUniqueLabelIsLookupError ==
    (IsLookup /\ last.via = "attribute" /\ last.fn = "get_uri_by_term"
        /\ graph.exists /\ endpoints = <<>>
        /\ Cardinality(Carriers(last.arg)) > 1)
        => last.res = Raise("LookupError", {})

\* The last operation was a call of a memoized function
IsMemoCall == IsLookup /\ last.fn \in Methods
CacheOf(fn) == IF fn = "get_uri_by_term" THEN cache.uri_by_term ELSE cache.term_by_uri

\* The entries of c other than those with a key in ks, in the order of c
RECURSIVE Without(_, _)
Without(c, ks) ==
    IF c = <<>> THEN <<>>
    ELSE (IF Head(c).key \in ks THEN <<>> ELSE <<Head(c)>>) \o Without(Tail(c), ks)

\* C12: each of the two caches holds at most maxsize results.  A memoized call is a
\* hit exactly when its key is held, and a hit calls no backend; a call that
\* returns leaves its key the most recently used; a miss that returns at capacity
\* evicts exactly the least recently used entry and keeps the others in their
\* order; a call that raises leaves the cache as it was.  With maxsize 1 the cache
\* holds only the key of the latest call that returned.
C12_BoundedLeastRecentlyUsed ==
    /\ cache.layers > 0 => /\ Len(cache.term_by_uri) <= cache.maxsize
                           /\ Len(cache.uri_by_term) <= cache.maxsize
    /\ IsMemoCall =>
          LET c == CacheOf(last.fn)
              b == last.before
              k == last.arg
              full == Len(b) = cache.maxsize
              returned == last.res.kind = "value"
          IN  /\ last.hit <=> (cache.maxsize > 0 /\ k \in Keys(b))
              /\ last.hit => last.calls = <<>> /\ returned
              /\ ~last.hit => last.calls # <<>>
              /\ ~returned => c = b
              /\ (returned /\ cache.maxsize > 0) =>
                    /\ c[Len(c)].key = k
                    /\ c[Len(c)].val = last.res.val
                    /\ Without(c, {k}) =
                          IF ~last.hit /\ full THEN Without(Tail(b), {k}) ELSE Without(b, {k})
              /\ (returned /\ cache.maxsize = 1) => Keys(c) = {k}

\* With maxsize 1, a call that returned took the place of a different key
C12_Witness ==
    /\ IsMemoCall /\ cache.maxsize = 1 /\ ~last.hit /\ last.res.kind = "value"
    /\ Len(last.before) = 1 /\ last.before[1].key # last.arg
    /\ Keys(CacheOf(last.fn)) = {last.arg}

\* C13: once tyto is imported, and after every call of configure_cache_size, each
\* of the two operations is under exactly one lru_cache layer; right after a call
\* of configure_cache_size both caches are empty and have the maxsize given.
C13_OneLayerEmptyAfterConfigure ==
    /\ (obj # "new" \/ last.op # "none") => cache.layers = 1
    /\ last.op = "configure_cache_size" =>
          /\ cache.layers = 1
          /\ cache.maxsize = last.arg
          /\ cache.term_by_uri = <<>> /\ cache.uri_by_term = <<>>

\* A reconfiguration that found results in the caches
C13_Witness ==
    /\ last.op = "configure_cache_size" /\ last.arg = 1 /\ last.held >= 2
    /\ cache.layers = 1 /\ cache.term_by_uri = <<>> /\ cache.uri_by_term = <<>>

\* The argument of a memoized call as the function under the cache sanitizes it
Sanitized(fn, arg) ==
    IF fn = "get_uri_by_term" THEN sanitize_term(hooks, arg) ELSE sanitize_uri(hooks, arg)

\* The keys held before the last call that sanitize to what its argument sanitizes to
SameSanitized == {k \in Keys(last.before) : Sanitized(last.fn, k) = Sanitized(last.fn, last.arg)}

\* C14 as stated: a memoized call whose argument sanitizes to the same value as
\* the argument of a call whose result is held invokes no backend.
C14_SanitizedArgumentsShareEntry ==
    (IsMemoCall /\ cache.maxsize > 0 /\ SameSanitized # {}) => last.calls = <<>>

\* C14 (amended): the key is the argument as the caller gave it.  A memoized call
\* invokes no backend exactly when a result is held for the same argument; an
\* argument that differs from every held one dispatches to the backends although
\* it sanitizes to the value of a held one, and when it returns it is stored in
\* an entry of its own.
C14_KeyIsArgumentAsGiven ==
    (IsMemoCall /\ cache.maxsize > 0)
        => /\ last.calls = <<>> <=> last.arg \in Keys(last.before)
           /\ (last.arg \notin Keys(last.before) /\ last.res.kind = "value"
                  /\ Len(last.before) < cache.maxsize)
                 => Keys(CacheOf(last.fn)) = Keys(last.before) \cup {last.arg}

\* The deprecated identifiers.org form of a URI is looked up while the result for
\* its current form is held: the backends are called and both forms are held
C14_Witness ==
    /\ IsMemoCall /\ last.fn = "get_term_by_uri" /\ hooks = "SO"
    /\ last.arg = <<NsIdOld, "0000110">>
    /\ Keys(last.before) = {<<NsIdOrg, "0000110">>}
    /\ SameSanitized # {}
    /\ last.calls # <<>> /\ last.res.kind = "value"
    /\ Keys(cache.term_by_uri) = {<<NsIdOrg, "0000110">>, <<NsIdOld, "0000110">>}

\* What a call O.get_uri_by_term(n) made in the current state can give its caller
OutcomesOfLookup(n) ==
    {m.res : m \in lru_cache_wrapper(cache.uri_by_term, cache.maxsize, n,
                      Ontology_get_uri_by_term(hooks, graph, endpoints, world, n))}

\* This step is an attribute access or a subscript access
IsAccessStep == last'.op = "lookup" /\ last'.via \in {"attribute", "subscript"}

\* C15 as stated: for a name that is an instance field, O.n gives the field and
\* looks nothing up; for every other name, O.n and O[n] give what
\* O.get_uri_by_term(n) gives.
C15_AccessIsLookup ==
    [][IsAccessStep =>
          IF last'.via = "attribute" /\ last'.arg \in InstanceFields
          THEN /\ last'.res = Attribute("field", last'.arg)
               /\ last'.calls = <<>> /\ cache' = cache
          ELSE last'.res \in OutcomesOfLookup(last'.arg)]_vars

\* C15 (amended): O[n] gives what O.get_uri_by_term(n) gives, for every n; O.n
\* does so for every n that is neither an instance field nor an attribute of
\* the class; for an instance field and for a class attribute, O.n gives that
\* attribute, calls no backend and leaves the cache as it is.
C15_AccessIsLookupUnlessAttribute ==
    [][IsAccessStep =>
          IF last'.via = "attribute" /\ last'.arg \in InstanceFields \cup ClassAttributes
          THEN /\ last'.res = Attribute(IF last'.arg \in InstanceFields THEN "field" ELSE "class",
                                        last'.arg)
               /\ last'.calls = <<>> /\ cache' = cache
          ELSE last'.res \in OutcomesOfLookup(last'.arg)]_vars

\* O.a_a returned the URI whose label is a-a
C15_Witness ==
    /\ IsLookup /\ last.via = "attribute" /\ last.fn = "get_uri_by_term"
    /\ last.arg = <<"a", "_", "a">> /\ last.res.kind = "value"
    /\ [uri |-> sanitize_uri(hooks, last.res.val), label |-> <<"a", "-", "a">>] \in world

----------------------------------------------------------------------------
(* Properties of the relationship methods *)

IsRelation(method) == obj = "ok" /\ last.op = method

\* A is a subclass of some B that is a subclass of C, and no direct subclass of C
Grandchild(A, C) ==
    /\ <<A, C>> \notin hierarchy.sub
    /\ \E B \in ClassURIs : <<A, B>> \in hierarchy.sub /\ <<B, C>> \in hierarchy.sub

C17_AncestorIsConverseOfDescendant ==
    /\ IsRelation("is_ancestor_of")
          => last.out = Value(SPARQLBuilder_is_descendant_of(hierarchy, last.other, last.self))
    /\ IsRelation("is_descendant_of")
          => last.out = Value(SPARQLBuilder_is_ancestor_of(hierarchy, last.other, last.self))

----------------------------------------------------------------------------
(* Properties of the REST backends *)

\* The responses of the REST backends in the last lookup (the reply of the
\* service is the one in force since the lookup)
RestResponses ==
    {last.calls[i].r : i \in {j \in 1..Len(last.calls) :
                                 /\ last.calls[j].b = "endpoint"
                                 /\ endpoints[last.calls[j].i] \in RestKinds}}

IsRestLookup ==
    /\ obj = "ok" /\ last.op \in {"get_uri_by_term", "get_term_by_uri"}
    /\ RestResponses # {}

\* C18: in a lookup answered by the OLS backend (which lists the ontology) or
\* by the substance backend, a reply with status 404 makes the backend return
\* None, a reply with a status from 200 to 299 makes it return or raise what the
\* payload says and no HTTPError, and any other status makes it raise HTTPError.
C18_RestStatusMapping ==
    (IsRestLookup /\ service.known) =>
        \A r \in RestResponses :
            /\ service.status = 404 => r = None
            /\ service.status \in 200..299 => r # HTTPError(service.status)
            /\ service.status \notin (200..299) \cup {404} => r = HTTPError(service.status)

\* The last operation was a lookup of a URI by term, by method call or subscript
IsTermLookup ==
    /\ obj = "ok"
    /\ \/ last.op = "get_uri_by_term"
       \/ last.op = "lookup" /\ last.fn = "get_uri_by_term"

\* C19: on the Ontology of the substance backend, when the name search answers
\* with more than one identifier, the caller of the term lookup (method call or
\* subscript) receives LookupError, raised by the backend; no URI is returned.
C19_SubstanceAmbiguityIsLookupError ==
    (IsTermLookup /\ endpoints = PubChemEndpoints.items
        /\ service.status = 200 /\ Len(service.items) > 1)
        => /\ last.res = Raise("LookupError", {})
           /\ Len(last.calls) = 1
           /\ last.calls[1].b = "endpoint" /\ last.calls[1].i = 1
           /\ last.calls[1].r = Raise("LookupError", {})

\* PubChem['a'] with two different SIDs in the reply
C19_Witness ==
    /\ IsTermLookup /\ last.op = "lookup" /\ last.via = "subscript"
    /\ endpoints = PubChemEndpoints.items
    /\ service = [status |-> 200, items |-> <<"1", "2">>, known |-> FALSE]
    /\ last.res = Raise("LookupError", {})

----------------------------------------------------------------------------
(* Properties of concurrent dispatch *)

\* C20: with two threads dispatching on an Ontology whose graph is unloaded and
\* whose file holds triples, load() is begun by at most one thread, and no thread
\* queries the graph while it holds only a part of the file.
C20_LoadGuarded ==
    /\ loads <= 1
    /\ \A c \in Callers : ~callers[c].partial

----------------------------------------------------------------------------
(* Properties of shared endpoint instances *)

\* C21: when two threads call one shared endpoint instance, a thread that returns
\* from SPARQLEndpoint.query holds a response to the query it passed, and a thread
\* that returns from the lookup service's _get_request for an ontology the service
\* hosts has resolved its short id (the dictionary is never read half filled).
C21_OwnResponse ==
    \A c \in Callers :
        callers[c].pc = "done" =>
            /\ callers[c].via = "sparql" =>
                  callers[c].res \in SPARQLBuilder_get_term_by_uri("sparql", world, callers[c].arg)
            /\ (callers[c].via = "ols" /\ callers[c].arg \in HostedOntologies) =>
                  callers[c].res.kind = "value"

----------------------------------------------------------------------------
(* Properties of the sanitization hooks around a lookup *)

\* The last operation was a lookup method of the Ontology that returned or raised
IsSanitizedLookup == obj = "ok" /\ last.op \in {"get_uri_by_term", "get_term_by_uri"}

\* The backend calls of the last dispatch (load() takes no argument)
ReceivedArgs == {last.calls[i].a : i \in {j \in 1..Len(last.calls) : last.calls[j].b # "load"}}

\* What get_term_by_uri can give for a URI in the present state
TermsOf(uri) == {run.res : run \in Ontology_get_term_by_uri(hooks, graph, endpoints, world, uri)}

\* C22: in get_term_by_uri and get_uri_by_term every backend called receives the
\* sanitized argument (with the SO hooks a URI of the native namespace, with the
\* default hooks a term without underscores), the caller receives the backend's
\* value passed through the reverse hook, and under the SO hooks every URI with
\* the same local id as the one looked up resolves to the term the caller got.
C22_SanitizedInReversedOut ==
    IsSanitizedLookup =>
        /\ \A a \in ReceivedArgs :
              /\ a = last.sarg
              /\ (last.op = "get_term_by_uri" /\ hooks = "SO") => a[1] = NsPurl
              /\ (last.op = "get_uri_by_term" /\ hooks = "base") =>
                    \A i \in 1..Len(a) : a[i] # "_"
        /\ last.res.kind = "value" =>
              last.res.val = IF last.op = "get_uri_by_term"
                             THEN reverse_sanitize_uri(hooks, last.out.val)
                             ELSE reverse_sanitize_term(hooks, last.out.val)
        /\ (last.op = "get_term_by_uri" /\ hooks = "SO") =>
              \A u \in QueryURIs : u[2] = last.arg[2] => last.res \in TermsOf(u)

\* SO.get_term_by_uri of an old-style identifiers.org URI answered by a backend
C22_Witness ==
    /\ IsSanitizedLookup /\ last.op = "get_term_by_uri" /\ hooks = "SO"
    /\ last.arg[1] = NsIdOld
    /\ ReceivedArgs # {}
    /\ last.res.kind = "value"
    /\ last.res.val \in LabelPool

----------------------------------------------------------------------------
(* Properties of the term lookup of the SPARQL-style backends *)

\* The calls of get_uri_by_term that the graph or a SPARQL endpoint answered in
\* the last dispatch, and the label triples the called backend held
IsTermDispatch == obj = "ok" /\ last.op \in {"_handler", "get_uri_by_term"}
SparqlStyleCalls ==
    {i \in 1..Len(last.calls) :
        \/ last.calls[i].b = "graph"
        \/ last.calls[i].b = "endpoint" /\ endpoints[last.calls[i].i] = "sparql"}
DataOf(c) == IF c.b = "graph" THEN graph.store ELSE world

Separators == {"-", "_", " "}

\* Matching in which underscore, hyphen and space are equivalent on both sides
EquivalentBothSides(term, label, icase) ==
    /\ Len(term) = Len(label)
    /\ \A i \in 1..Len(term) :
          \/ term[i] \in Separators /\ label[i] \in Separators
          \/ IF icase THEN Lower(term[i]) = Lower(label[i]) ELSE term[i] = label[i]

\* Matching in which only a space of the term stands for any separator
SpaceStandsForSeparator(term, label, icase) ==
    /\ Len(term) = Len(label)
    /\ \A i \in 1..Len(term) :
          IF term[i] = " " THEN label[i] \in Separators
          ELSE IF icase THEN Lower(term[i]) = Lower(label[i]) ELSE term[i] = label[i]

\* The resolution of the claim over the URIs matched without and with case
Resolution(insensitive, sensitive) ==
    IF insensitive = {} THEN None
    ELSE IF Cardinality(insensitive) = 1 THEN Value(OnlyElem(insensitive))
    ELSE IF sensitive = {} THEN None
    ELSE IF Cardinality(sensitive) = 1 THEN Value(OnlyElem(sensitive))
    ELSE Raise("Exception:Ambiguous", sensitive)

----------------------------------------------------------------------------
(* Properties of the instance and listing methods *)

\* The last operation was a method of a URI value that went to the dispatcher
IsUriMethod == obj = "ok" /\ last.op \in RelationMethods \cup InstanceMethods \cup ListingMethods

\* The calls of the last dispatch in which a method of a backend ran (load()
\* takes no argument, and a backend without the method is not called)
Invoked == {i \in 1..Len(last.calls) : /\ last.calls[i].b # "load"
                                       /\ last.calls[i].r # Raise("AttributeError", {})}

\* The URIs among the arguments a backend received in the last dispatch
ReceivedURIs ==
    UNION {IF last.op \in RelationMethods THEN {last.calls[i].a[1], last.calls[i].a[2]}
           ELSE {last.calls[i].a}
           : i \in Invoked}

\* C24: whichever relationship method of a URI value is called on an Ontology
\* with the SO hooks, every backend called in its dispatch receives URIs of the
\* native namespace only, never an identifiers.org one.
C24_BackendsReceiveSanitizedURIs ==
    (IsUriMethod /\ hooks = "SO") => \A u \in ReceivedURIs : u[1] = NsPurl

----------------------------------------------------------------------------
(* Properties of get_ontologies *)

\* C25: get_ontologies of a SPARQL-style backend that holds ontology declarations
\* returns a mapping whose keys are the declared ontology URIs, each with a title
\* of that same ontology as its value.
C25_OntologiesWithTheirTitles ==
    last.op = "get_ontologies" /\ last.rows # <<>> =>
        /\ last.out.kind = "value"
        /\ {p[1] : p \in last.out.val} = {last.rows[i].uri : i \in 1..Len(last.rows)}
        /\ \A p \in last.out.val :
              \E i \in 1..Len(last.rows) : last.rows[i].uri = p[1] /\ last.rows[i].title = p[2]

----------------------------------------------------------------------------
(* Properties of the backend protocol *)

\* C26: a relationship, instance or listing method of a URI value, dispatched on
\* an Ontology over any backend classes, returns a result or None or raises the
\* backend's own error; it never fails because a backend lacks the method.
C26_EveryBackendHasEveryOperation ==
    IsUriMethod =>
        /\ last.out # Raise("AttributeError", {})
        /\ \A i \in 1..Len(last.calls) : last.calls[i].r # Raise("AttributeError", {})

----------------------------------------------------------------------------
(* Properties of one dispatch over its backends *)

\* How often the graph, and the endpoint at position k, were called in the last dispatch
GraphCallCount == Cardinality({i \in 1..Len(last.calls) : last.calls[i].b = "graph"})
EndpointCallCount(k) ==
    Cardinality({i \in 1..Len(last.calls) : last.calls[i].b = "endpoint" /\ last.calls[i].i = k})

\* C27: in one dispatch the graph is queried at most once (not in the loaded-graph
\* step and again in the lazy-load step), load() runs at most once, and every
\* endpoint of the list is called at most once, whatever it answered.
C27_EachBackendAtMostOnce ==
    IsDispatch =>
        /\ GraphCallCount <= 1
        /\ Cardinality({i \in 1..Len(last.calls) : last.calls[i].b = "load"}) <= 1
        /\ \A k \in 1..Len(endpoints) : EndpointCallCount(k) <= 1

\* A loaded graph that answered None, then two endpoints that answered None or
\* failed: the dispatch ends without a second query of the graph
C27_Witness ==
    /\ IsDispatch /\ last.wasLoaded /\ Len(endpoints) = 2
    /\ last.calls[1].b = "graph" /\ last.calls[1].r.kind = "none"
    /\ Len(EndpointCalls) >= 1
    /\ last.calls[Len(last.calls)].b = "endpoint"
    /\ last.calls[Len(last.calls)].r.kind # "value"
    /\ GraphCallCount = 1

----------------------------------------------------------------------------
(* Properties of the boolean relationship methods *)

IsBooleanMethod == IsUriMethod /\ last.op \in RelationMethods \cup {"is_instance"}

\* C28: in a dispatch of is_child_of, is_parent_of, is_ancestor_of,
\* is_descendant_of or is_instance, a backend's answer True or False ends the
\* dispatch: it is the first and only answer, _handler returns it, no backend is
\* called after it, and when an endpoint gave it no load() has run (an unloaded
\* graph is still unloaded).
C28_FalseAnswerIsFinal ==
    IsBooleanMethod =>
        \A i \in 1..Len(last.calls) :
            last.calls[i].r.kind = "value" =>
                /\ i = Len(last.calls)
                /\ last.out = last.calls[i].r
                /\ \A j \in 1..(i - 1) : last.calls[j].r.kind = "none"
                /\ last.calls[i].b = "endpoint" =>
                      \A j \in 1..Len(last.calls) : last.calls[j].b \notin {"load", "graph"}

\* is_instance answered False by the endpoint of an Ontology whose graph is not
\* loaded: the graph, next in dispatch order, is neither loaded nor queried
C28_Witness ==
    /\ IsBooleanMethod /\ last.op = "is_instance"
    /\ graph.exists /\ ~is_loaded(graph.store) /\ loads = 0
    /\ endpoints = <<"sparql">>
    /\ Len(last.calls) = 1 /\ last.calls[1].b = "endpoint"
    /\ last.out = Value(Bool(FALSE))

----------------------------------------------------------------------------
(* Properties of the memoized lookups *)

\* What the function under the wrapper can give for the argument in the present state
FreshOutcomes(fn, arg) ==
    IF fn = "get_uri_by_term"
    THEN {run.res : run \in Ontology_get_uri_by_term(hooks, graph, endpoints, world, arg)}
    ELSE {run.res : run \in Ontology_get_term_by_uri(hooks, graph, endpoints, world, arg)}

\* C29: a memoized lookup whose argument is held returns the value stored for it,
\* which the unmemoized lookup can return as well, calls no backend and leaves
\* the graph as loaded or unloaded as it was; a lookup whose argument is not held
\* runs the dispatch; a lookup that raised stores nothing, so its argument is not
\* held afterwards and the next lookup of it runs the dispatch again.
C29_MemoizationIsTransparent ==
    IsMemoCall =>
        /\ last.hit =>
              /\ last.arg \in Keys(last.before)
              /\ last.res = Value(last.before[Find(last.before, last.arg)].val)
              /\ last.res \in FreshOutcomes(last.fn, last.arg)
              /\ last.calls = <<>>
              /\ is_loaded(graph.store) <=> last.wasLoaded
        /\ last.arg \notin Keys(last.before) => (~last.hit /\ last.calls # <<>>)
        /\ last.res.kind = "raise" =>
              /\ CacheOf(last.fn) = last.before
              /\ last.arg \notin Keys(CacheOf(last.fn))
        /\ \A i \in 1..Len(CacheOf(last.fn)) : CacheOf(last.fn)[i].val # NoVal

\* A repeated lookup answered from the cache while the graph is still unloaded
C29_Witness ==
    /\ IsMemoCall /\ last.hit /\ last.fn = "get_term_by_uri"
    /\ graph.exists /\ ~is_loaded(graph.store)
    /\ last.calls = <<>>
    /\ last.res.kind = "value"

----------------------------------------------------------------------------
(* Properties of the listings of the lookup service *)

\* The calls of the last dispatch that reached the lookup service and that it
\* answered with status 200 for an ontology it hosts
IsListing == IsUriMethod /\ last.op \in ListingMethods
AnsweredListings ==
    {i \in 1..Len(last.calls) :
        /\ last.calls[i].b = "endpoint" /\ endpoints[last.calls[i].i] = "ols"
        /\ service.known /\ service.status = 200}

\* C30: get_parents, get_children, get_ancestors and get_descendants of the lookup
\* service return the empty list when the successful response embeds no terms,
\* and else the reverse-sanitized iris of the embedded terms; none of them
\* raises on a successful response.
C30_ListingOfSuccessfulResponse ==
    IsListing =>
        \A i \in AnsweredListings :
            last.calls[i].r = Value([k \in 1..Len(service.items) |->
                                        reverse_sanitize_uri(hooks, <<NsPurl, service.items[k]>>)])
====
